---- MODULE Spec2Model ----
(***************************************************************************)
(* Heat exchanger calculator (src/app.py): one run of the script, stage by *)
(* stage, for every value of the input widgets within the bounds.          *)
(*                                                                         *)
(* Numbers are exact rationals <<n, d>> with d > 0 in lowest terms; the    *)
(* script's floats are modelled by their exact real values, so rounding of *)
(* the last bit of a double is outside this model.  None and NaN are the   *)
(* two values with denominator 0.  math.log is modelled by a rational      *)
(* enclosure [LnLo(x), LnHi(x)] of the natural logarithm, so LMTD and the  *)
(* area are intervals [lo, hi] (lo = hi when the value is exact).          *)
(* Every run starts at the top of the script with nothing kept from the    *)
(* run before it, so the runs from Init are all the runs there are.        *)
(***************************************************************************)
EXTENDS Integers, Sequences, FiniteSets

\* ---------------------------------------------------------------- bounds
MaxFlow == 1
MaxCp == 2
MaxTemp == 3
MaxU == 1

\* ------------------------------------------------------ program constants
KiloFactor == 1000
NumSamples == 100
\* min_value of the U widget
MinU == 1

\* ------------------------------------------------------ rational numbers
None == <<0, 0>>
NaN == <<1, 0>>
IsNum(x) == x[2] > 0

Abs(n) == IF n < 0 THEN -n ELSE n

\* The arithmetic is written as functions, which take their arguments by value.
Pairs == Int \X Int

gcd[a \in Nat, b \in Nat] == IF b = 0 THEN a ELSE gcd[b, a % b]

reduce[n \in Int, d \in Int, g \in Nat] ==
  IF g = 0 THEN <<n, d>>
  ELSE IF d < 0 THEN <<(-n) \div g, (-d) \div g>>
  ELSE <<n \div g, d \div g>>
\* n / d in lowest terms, the denominator positive
Rat(n, d) == reduce[n, d, gcd[Abs(n), Abs(d)]]

Whole(n) == <<n, 1>>
radd[a \in Pairs, b \in Pairs] == Rat(a[1] * b[2] + b[1] * a[2], a[2] * b[2])
rsub[a \in Pairs, b \in Pairs] == Rat(a[1] * b[2] - b[1] * a[2], a[2] * b[2])
rmul[a \in Pairs, b \in Pairs] == Rat(a[1] * b[1], a[2] * b[2])
\* a + b * c and a - b * c, reduced once
raddmul[a \in Pairs, b \in Pairs, c \in Pairs] ==
  Rat(a[1] * b[2] * c[2] + b[1] * c[1] * a[2], a[2] * b[2] * c[2])
rsubmul[a \in Pairs, b \in Pairs, c \in Pairs] ==
  Rat(a[1] * b[2] * c[2] - b[1] * c[1] * a[2], a[2] * b[2] * c[2])
RAdd(a, b) == radd[a, b]
RSub(a, b) == rsub[a, b]
RMul(a, b) == rmul[a, b]
\* a / b for b # 0 (a zero divisor raises ZeroDivisionError: the callers test it)
RDiv(a, b) == rmul[a, Rat(b[2], b[1])]
RLt(a, b) == a[1] * b[2] < b[1] * a[2]
RLe(a, b) == a[1] * b[2] <= b[1] * a[2]
RGt(a, b) == RLt(b, a)
RGe(a, b) == RLe(b, a)
RMin(a, b) == IF RLt(b, a) THEN b ELSE a
RMax(a, b) == IF RGt(b, a) THEN b ELSE a
Zero == Whole(0)

\* an interval [lo, hi]; Exact(x) is the single value x
Exact(x) == [lo |-> x, hi |-> x]
Undefined == Exact(NaN)
Defined(v) == IsNum(v.lo) /\ IsNum(v.hi)

\* ---------------------------------------------------------------- state
VARIABLES
  m_dot_hot, Cp_hot, T_hot_in, T_hot_out_known, T_hot_out,
  m_dot_cold, Cp_cold, T_cold_in, T_cold_out_known, T_cold_out,
  U, flow_type,
  Q, T_hot_out_calc, T_cold_out_calc, valid_temp, Q_hot, Q_cold,
  delta_T1, delta_T2, LMTD, A,
  messages, metrics, profile, pc

inputs == <<m_dot_hot, Cp_hot, T_hot_in, T_hot_out_known,
            m_dot_cold, Cp_cold, T_cold_in, T_cold_out_known, U, flow_type>>
computed == <<Q, T_hot_out_calc, T_cold_out_calc, valid_temp, Q_hot, Q_cold,
              delta_T1, delta_T2, LMTD, A>>
shown == <<messages, metrics, profile>>
vars == <<inputs, T_hot_out, T_cold_out, computed, shown, pc>>

\* --------------------------------------------------- text shown to the user
InsufficientData == "Please provide at least three temperatures to perform the calculation."
InvalidHotOutlet == "Hot fluid outlet temperature must be less than inlet temperature."
InvalidColdOutlet == "Cold fluid outlet temperature must be greater than inlet temperature."
InvalidTemperatureDifference == "Temperature difference(s) for LMTD are invalid (<= 0). Check your inlet and outlet temps."
LMTDComputationFailure == "Log mean temperature difference calculation failed."

CounterFlow == "Counter-flow"
ParallelFlow == "Parallel-flow"

\* ------------------------------------------------- the script's expressions
\* Q = None before the first pass
InitialQ == None

\* m * Cp * dT * 1000
StreamDuty(m, Cp, dT) == RMul(RMul(RMul(m, Cp), dT), Whole(KiloFactor))

\* the divisor m * Cp * 1000 of an inferred outlet
InferDivisor(m, Cp) == RMul(RMul(m, Cp), Whole(KiloFactor))

\* T_cold_in + Q / (m_dot_cold * Cp_cold * 1000)
InferColdOut(Tin, q, m, Cp) == RAdd(Tin, RDiv(q, InferDivisor(m, Cp)))

\* the sign slipped: the hot outlet inferred above the inlet
InferHotOutAdded(Tin, q, m, Cp) == RAdd(Tin, RDiv(q, InferDivisor(m, Cp)))
\* T_hot_in - Q / (m_dot_hot * Cp_hot * 1000)
InferHotOut(Tin, q, m, Cp) == RSub(Tin, RDiv(q, InferDivisor(m, Cp)))

\* the guard dropped: the block runs whether or not Q was set
QIsSetAlways(q) == TRUE
\* if Q is not None
QIsSet(q) == q # None

\* max taken for min
GoverningDutyMax(qh, qc) == RMax(qh, qc)
\* min(Q_hot, Q_cold)
GoverningDuty(qh, qc) == RMin(qh, qc)

\* > written for >=: an outlet equal to the inlet passes
HotOutletInvalidStrict(Tout, Tin) == RGt(Tout, Tin)
HotOutletInvalid(Tout, Tin) == RGe(Tout, Tin)
ColdOutletInvalid(Tout, Tin) == RLe(Tout, Tin)

DeltaT1(flow, Thi, Tho, Tci, Tco) ==
  IF flow = CounterFlow THEN RSub(Thi, Tco) ELSE RSub(Thi, Tci)
DeltaT2(flow, Thi, Tho, Tci, Tco) ==
  IF flow = CounterFlow THEN RSub(Tho, Tci) ELSE RSub(Tho, Tco)

\* and written for or
DeltaInvalidBoth(d1, d2) == RLe(d1, Zero) /\ RLe(d2, Zero)
DeltaInvalid(d1, d2) == RLe(d1, Zero) \/ RLe(d2, Zero)

\* math.log(x), x > 0: ln x lies between (x^2 - 1) / (2x) and 2(x - 1) / (x + 1)
\* (the two agree only at x = 1, where ln x = 0)
LnPade(x) == RDiv(RMul(Whole(2), RSub(x, Whole(1))), RAdd(x, Whole(1)))
LnMean(x) == RDiv(RSub(RMul(x, x), Whole(1)), RMul(Whole(2), x))
LnLo(x) == RMin(LnPade(x), LnMean(x))
LnHi(x) == RMax(LnPade(x), LnMean(x))

\* the ratio inverted: math.log(delta_T2 / delta_T1)
LogMeanInverted(d1, d2) ==
  IF d1 = Zero THEN Undefined
  ELSE LET x == RDiv(d2, d1)
       IN  IF RLe(x, Zero) \/ x = Whole(1) THEN Undefined
           ELSE LET a == RDiv(RSub(d1, d2), LnLo(x))
                    b == RDiv(RSub(d1, d2), LnHi(x))
                IN  [lo |-> RMin(a, b), hi |-> RMax(a, b)]
\* the try block: (delta_T1 - delta_T2) / math.log(delta_T1 / delta_T2);
\* Undefined when the expression raises (the bare except catches it)
LogMean(d1, d2) ==
  IF d2 = Zero THEN Undefined
  ELSE LET x == RDiv(d1, d2)
       IN  IF RLe(x, Zero) \/ x = Whole(1) THEN Undefined
           ELSE LET a == RDiv(RSub(d1, d2), LnLo(x))
                    b == RDiv(RSub(d1, d2), LnHi(x))
                IN  [lo |-> RMin(a, b), hi |-> RMax(a, b)]

\* the elif of equal differences left out: log(1) = 0 divides
LMTDOfNoEqual(d1, d2) ==
  IF DeltaInvalid(d1, d2) THEN [value |-> Undefined, errors |-> {InvalidTemperatureDifference}]
  ELSE LET v == LogMean(d1, d2)
       IN  [value |-> v,
            errors |-> IF Defined(v) THEN {} ELSE {LMTDComputationFailure}]
\* the if / elif / else that sets LMTD, with the error it shows (if any)
LMTDOf(d1, d2) ==
  IF DeltaInvalid(d1, d2) THEN [value |-> Undefined, errors |-> {InvalidTemperatureDifference}]
  ELSE IF d1 = d2 THEN [value |-> Exact(d1), errors |-> {}]
  ELSE LET v == LogMean(d1, d2)
       IN  [value |-> v,
            errors |-> IF Defined(v) THEN {} ELSE {LMTDComputationFailure}]

\* U > 0 and not math.isnan(LMTD)
AreaDefined(u, lmtd) == RGt(u, Zero) /\ Defined(lmtd)
\* U * LMTD can be 0: Q / (U * LMTD) raises ZeroDivisionError
AreaRaises(u, lmtd) ==
  AreaDefined(u, lmtd) /\ RLe(RMul(u, lmtd.lo), Zero) /\ RGe(RMul(u, lmtd.hi), Zero)
AreaOf(q, u, lmtd) ==
  IF AreaDefined(u, lmtd)
  THEN LET a == RDiv(q, RMul(u, lmtd.lo))
           b == RDiv(q, RMul(u, lmtd.hi))
       IN  [lo |-> RMin(a, b), hi |-> RMax(a, b)]
  ELSE Undefined

\* f"{x:.2f}": the nearest multiple of 1/100 (an exact tie goes to the even
\* neighbour); NaN stays NaN and is shown as "nan"
Fmt2(x) ==
  IF ~IsNum(x) THEN x
  ELSE LET v == RMul(x, Whole(100))
           f == v[1] \div v[2]
           r == v[1] - f * v[2]
           k == IF 2 * r < v[2] THEN f
                ELSE IF 2 * r > v[2] THEN f + 1
                ELSE IF f % 2 = 0 THEN f ELSE f + 1
       IN  Rat(k, 100)
Fmt2I(v) == [lo |-> Fmt2(v.lo), hi |-> Fmt2(v.hi)]

\* x = np.linspace(0, 1, 100), and 1 - x
Linspace == [i \in 1..NumSamples |-> Rat(i - 1, NumSamples - 1)]
OneMinusLinspace == [i \in 1..NumSamples |-> RSub(Whole(1), Linspace[i])]

\* the arrays a - d * x and a + d * x over the samples x
Arrays == Seq(Pairs)
minusTimes[a \in Pairs, d \in Pairs, x \in Arrays] ==
  [i \in 1..NumSamples |-> rsubmul[a, d, x[i]]]
plusTimes[a \in Pairs, d \in Pairs, x \in Arrays] ==
  [i \in 1..NumSamples |-> raddmul[a, d, x[i]]]

\* T_hot = T_hot_in - (T_hot_in - T_hot_out) * x
HotProfile(Thi, Tho) == minusTimes[Thi, RSub(Thi, Tho), Linspace]
\* T_cold = T_cold_out - (T_cold_out - T_cold_in) * (1 - x), or
\* T_cold = T_cold_in + (T_cold_out - T_cold_in) * x
ColdProfile(flow, Tci, Tco) ==
  IF flow = CounterFlow
  THEN minusTimes[Tco, RSub(Tco, Tci), OneMinusLinspace]
  ELSE plusTimes[Tci, RSub(Tco, Tci), Linspace]
\* the two arrays plotted against x
ProfileOf(flow, Thi, Tho, Tci, Tco) ==
  [T_hot |-> HotProfile(Thi, Tho), T_cold |-> ColdProfile(flow, Tci, Tco)]

NoMetrics == [Q |-> None, LMTD |-> Exact(None), A |-> Exact(None)]
NoProfile == [T_hot |-> <<>>, T_cold |-> <<>>]

\* ------------------------------------------------------------- the widgets
FlowRates == {Whole(k) : k \in 0..MaxFlow}
SpecificHeats == {Whole(k) : k \in 0..MaxCp}
Temperatures == {Whole(k) : k \in 0..MaxTemp}
Coefficients == {Whole(k) : k \in MinU..MaxU}
FlowTypes == {CounterFlow, ParallelFlow}

\* the widgets' values of one run; an outlet that is not known is None
Widgets ==
  /\ m_dot_hot \in FlowRates
  /\ Cp_hot \in SpecificHeats
  /\ T_hot_in \in Temperatures
  /\ T_hot_out_known \in BOOLEAN
  /\ T_hot_out \in IF T_hot_out_known THEN Temperatures ELSE {None}
  /\ m_dot_cold \in FlowRates
  /\ Cp_cold \in SpecificHeats
  /\ T_cold_in \in Temperatures
  /\ T_cold_out_known \in BOOLEAN
  /\ T_cold_out \in IF T_cold_out_known THEN Temperatures ELSE {None}
  /\ U \in Coefficients
  /\ flow_type \in FlowTypes

\* the top of the script: nothing computed, nothing shown
Init ==
  /\ Widgets
  /\ Q = InitialQ
  /\ T_hot_out_calc = None
  /\ T_cold_out_calc = None
  /\ valid_temp = "unbound"
  /\ Q_hot = None
  /\ Q_cold = None
  /\ delta_T1 = None
  /\ delta_T2 = None
  /\ LMTD = Exact(None)
  /\ A = Exact(None)
  /\ messages = {}
  /\ metrics = NoMetrics
  /\ profile = NoProfile
  /\ pc = "first_pass"

\* ------------------------------------------------------------ the stages
\* the first pass over the duty, with the inference of a missing outlet
FirstPass ==
  /\ pc = "first_pass"
  /\ IF T_hot_out_known /\ T_cold_out_known THEN
       /\ Q_hot' = StreamDuty(m_dot_hot, Cp_hot, RSub(T_hot_in, T_hot_out))
       /\ Q_cold' = StreamDuty(m_dot_cold, Cp_cold, RSub(T_cold_out, T_cold_in))
       /\ Q' = GoverningDuty(Q_hot', Q_cold')
       /\ pc' = "validate"
       /\ UNCHANGED <<T_hot_out_calc, T_cold_out_calc, messages>>
     ELSE IF T_hot_out_known /\ ~T_cold_out_known THEN
       /\ Q' = StreamDuty(m_dot_hot, Cp_hot, RSub(T_hot_in, T_hot_out))
       /\ IF InferDivisor(m_dot_cold, Cp_cold) = Zero
          THEN pc' = "fault" /\ UNCHANGED T_cold_out_calc
          ELSE /\ T_cold_out_calc' = InferColdOut(T_cold_in, Q', m_dot_cold, Cp_cold)
               /\ pc' = "validate"
       /\ UNCHANGED <<T_hot_out_calc, Q_hot, Q_cold, messages>>
     ELSE IF ~T_hot_out_known /\ T_cold_out_known THEN
       /\ Q' = StreamDuty(m_dot_cold, Cp_cold, RSub(T_cold_out, T_cold_in))
       /\ IF InferDivisor(m_dot_hot, Cp_hot) = Zero
          THEN pc' = "fault" /\ UNCHANGED T_hot_out_calc
          ELSE /\ T_hot_out_calc' = InferHotOut(T_hot_in, Q', m_dot_hot, Cp_hot)
               /\ pc' = "validate"
       /\ UNCHANGED <<T_cold_out_calc, Q_hot, Q_cold, messages>>
     ELSE
       /\ messages' = messages \cup {InsufficientData}
       /\ pc' = "validate"
       /\ UNCHANGED <<Q, T_hot_out_calc, T_cold_out_calc, Q_hot, Q_cold>>
  /\ UNCHANGED <<inputs, T_hot_out, T_cold_out, valid_temp, delta_T1, delta_T2,
                 LMTD, A, metrics, profile>>

\* if Q is not None: the outlets are resolved and validated (comparing an
\* outlet that is still None raises TypeError)
Validate ==
  /\ pc = "validate"
  /\ IF QIsSet(Q) THEN
       /\ T_hot_out' = IF T_hot_out = None THEN T_hot_out_calc ELSE T_hot_out
       /\ T_cold_out' = IF T_cold_out = None THEN T_cold_out_calc ELSE T_cold_out
       /\ IF T_hot_out' = None THEN
            /\ pc' = "fault"
            /\ UNCHANGED <<messages, valid_temp>>
          ELSE IF T_cold_out' = None THEN
            /\ messages' = messages
                 \cup (IF HotOutletInvalid(T_hot_out', T_hot_in) THEN {InvalidHotOutlet} ELSE {})
            /\ valid_temp' = IF HotOutletInvalid(T_hot_out', T_hot_in) THEN "False" ELSE "True"
            /\ pc' = "fault"
          ELSE
            /\ messages' = messages
                 \cup (IF HotOutletInvalid(T_hot_out', T_hot_in) THEN {InvalidHotOutlet} ELSE {})
                 \cup (IF ColdOutletInvalid(T_cold_out', T_cold_in) THEN {InvalidColdOutlet} ELSE {})
            /\ valid_temp' = IF HotOutletInvalid(T_hot_out', T_hot_in)
                                \/ ColdOutletInvalid(T_cold_out', T_cold_in)
                             THEN "False" ELSE "True"
            /\ pc' = IF valid_temp' = "True" THEN "duty" ELSE "done"
     ELSE
       /\ pc' = "done"
       /\ UNCHANGED <<T_hot_out, T_cold_out, messages, valid_temp>>
  /\ UNCHANGED <<inputs, Q, T_hot_out_calc, T_cold_out_calc, Q_hot, Q_cold,
                 delta_T1, delta_T2, LMTD, A, metrics, profile>>

\* if valid_temp: the duty is computed again from the resolved temperatures
Duty ==
  /\ pc = "duty"
  /\ Q_hot' = StreamDuty(m_dot_hot, Cp_hot, RSub(T_hot_in, T_hot_out))
  /\ Q_cold' = StreamDuty(m_dot_cold, Cp_cold, RSub(T_cold_out, T_cold_in))
  /\ Q' = GoverningDuty(Q_hot', Q_cold')
  /\ pc' = "deltas"
  /\ UNCHANGED <<inputs, T_hot_out, T_cold_out, T_hot_out_calc, T_cold_out_calc,
                 valid_temp, delta_T1, delta_T2, LMTD, A, shown>>

Deltas ==
  /\ pc = "deltas"
  /\ delta_T1' = DeltaT1(flow_type, T_hot_in, T_hot_out, T_cold_in, T_cold_out)
  /\ delta_T2' = DeltaT2(flow_type, T_hot_in, T_hot_out, T_cold_in, T_cold_out)
  /\ pc' = "lmtd"
  /\ UNCHANGED <<inputs, T_hot_out, T_cold_out, Q, T_hot_out_calc, T_cold_out_calc,
                 valid_temp, Q_hot, Q_cold, LMTD, A, shown>>

LogMeanDifference ==
  /\ pc = "lmtd"
  /\ LMTD' = LMTDOf(delta_T1, delta_T2).value
  /\ messages' = messages \cup LMTDOf(delta_T1, delta_T2).errors
  /\ pc' = "area"
  /\ UNCHANGED <<inputs, T_hot_out, T_cold_out, Q, T_hot_out_calc, T_cold_out_calc,
                 valid_temp, Q_hot, Q_cold, delta_T1, delta_T2, A, metrics, profile>>

Area ==
  /\ pc = "area"
  /\ IF AreaRaises(U, LMTD)
     THEN pc' = "fault" /\ UNCHANGED A
     ELSE A' = AreaOf(Q, U, LMTD) /\ pc' = "metrics"
  /\ UNCHANGED <<inputs, T_hot_out, T_cold_out, Q, T_hot_out_calc, T_cold_out_calc,
                 valid_temp, Q_hot, Q_cold, delta_T1, delta_T2, LMTD, shown>>

\* the three st.metric calls
Metrics ==
  /\ pc = "metrics"
  /\ metrics' = [Q |-> Fmt2(RDiv(Q, Whole(KiloFactor))),
                 LMTD |-> Fmt2I(LMTD),
                 A |-> Fmt2I(A)]
  /\ pc' = "profile"
  /\ UNCHANGED <<inputs, T_hot_out, T_cold_out, computed, messages, profile>>

\* the temperature profile plot
Profile ==
  /\ pc = "profile"
  /\ profile' = ProfileOf(flow_type, T_hot_in, T_hot_out, T_cold_in, T_cold_out)
  /\ pc' = "done"
  /\ UNCHANGED <<inputs, T_hot_out, T_cold_out, computed, messages, metrics>>

Next ==
  \/ FirstPass
  \/ Validate
  \/ Duty
  \/ Deltas
  \/ LogMeanDifference
  \/ Area
  \/ Metrics
  \/ Profile

Spec == Init /\ [][Next]_vars

\* ------------------------------------------------------------ the claims
Positive(x) == RGt(x, Zero)
RAbs(a) == <<Abs(a[1]), a[2]>>
Resolved == IsNum(T_hot_out) /\ IsNum(T_cold_out)
ValidationRan == pc \notin {"first_pass", "validate"} /\ valid_temp # "unbound"
ValidationPassed == valid_temp = "True"
NothingReported ==
  metrics = NoMetrics /\ profile = NoProfile /\ LMTD = Exact(None) /\ A = Exact(None)
\* the driving differences of the selected arrangement, from the resolved temperatures
DrivingT1 ==
  IF flow_type = CounterFlow THEN RSub(T_hot_in, T_cold_out) ELSE RSub(T_hot_in, T_cold_in)
DrivingT2 ==
  IF flow_type = CounterFlow THEN RSub(T_hot_out, T_cold_in) ELSE RSub(T_hot_out, T_cold_out)
LMTDSet == pc \in {"area", "metrics", "profile", "done"} /\ ValidationPassed
AreaSet == pc \in {"metrics", "profile", "done"} /\ ValidationPassed
MetricsShown == pc \in {"profile", "done"} /\ ValidationPassed

\* C1: when both outlets are resolved and the hot outlet is >= the hot inlet or
\* the cold outlet is <= the cold inlet, the run ends at validation with an
\* InvalidTemperature message; no duty, LMTD, area or profile is reported.
C1_InvalidTemperatureHalts ==
  (ValidationRan /\ Resolved
     /\ (RGe(T_hot_out, T_hot_in) \/ RLe(T_cold_out, T_cold_in)))
  => /\ pc = "done"
     /\ valid_temp = "False"
     /\ messages # {}
     /\ messages \subseteq {InvalidHotOutlet, InvalidColdOutlet}
     /\ (RGe(T_hot_out, T_hot_in) <=> InvalidHotOutlet \in messages)
     /\ (RLe(T_cold_out, T_cold_in) <=> InvalidColdOutlet \in messages)
     /\ NothingReported
C1_Witness ==
  /\ pc = "done" /\ Resolved /\ T_hot_out = T_hot_in
  /\ InvalidHotOutlet \in messages /\ NothingReported

\* C2: when neither outlet is supplied, the run reports InsufficientData and
\* stops: Q stays None and no validation, duty, LMTD, area or profile step runs.
C2_InsufficientDataStops ==
  (~T_hot_out_known /\ ~T_cold_out_known)
  => /\ pc \in {"first_pass", "validate", "done"}
     /\ (pc # "first_pass" => messages = {InsufficientData})
     /\ Q = None
     /\ valid_temp = "unbound"
     /\ T_hot_out = None /\ T_cold_out = None
     /\ Q_hot = None /\ Q_cold = None
     /\ NothingReported
C2_Witness ==
  /\ pc = "done" /\ ~T_hot_out_known /\ ~T_cold_out_known
  /\ messages = {InsufficientData} /\ Q = None

\* C3: whenever validation passed and the duty is computed, Q is the smaller in
\* magnitude of m_hot*Cp_hot*(T_hot_in - T_hot_out)*1000 and
\* m_cold*Cp_cold*(T_cold_out - T_cold_in)*1000 over the resolved temperatures,
\* and the metric shown is that Q in kW to two decimals.
C3_GoverningDutyIsSmaller ==
  LET qh == RMul(RMul(m_dot_hot, Cp_hot), RMul(RSub(T_hot_in, T_hot_out), Whole(1000)))
      qc == RMul(RMul(m_dot_cold, Cp_cold), RMul(RSub(T_cold_out, T_cold_in), Whole(1000)))
  IN  /\ (pc \in {"deltas", "lmtd", "area", "metrics", "profile", "done"} /\ ValidationPassed)
         => Q = RMin(RAbs(qh), RAbs(qc))
      /\ MetricsShown => metrics.Q = Fmt2(RDiv(RMin(RAbs(qh), RAbs(qc)), Whole(1000)))
C3_Witness ==
  /\ pc = "done" /\ MetricsShown /\ T_hot_out_known /\ T_cold_out_known
  /\ Q = Q_cold /\ RLt(Q_cold, Q_hot) /\ Positive(Q)

\* C4: a run never ends in an uncaught fault.
C4_NeverFaults == pc # "fault"

\* C5: after validation passed, if a driving difference of the selected
\* arrangement is <= 0, the InvalidTemperatureDifference message is shown and
\* LMTD and the area are undefined (NaN), also in the metrics shown.
C5_InvalidDifferenceUndefined ==
  (LMTDSet /\ (RLe(DrivingT1, Zero) \/ RLe(DrivingT2, Zero)))
  => /\ InvalidTemperatureDifference \in messages
     /\ LMTD = Undefined
     /\ (AreaSet => A = Undefined)
     /\ (MetricsShown => metrics.LMTD = Undefined /\ metrics.A = Undefined)
C5_Witness ==
  /\ pc = "done" /\ MetricsShown /\ RLe(DrivingT1, Zero) /\ Positive(DrivingT2)
  /\ metrics.A = Undefined

\* C6: no temperature profile is produced in a run whose LMTD is undefined.
C6_ProfileWithheld == profile # NoProfile => Defined(LMTD)

\* C7: for positive flow rates and specific heats and four temperatures that
\* satisfy the energy balance and pass validation, the run with the hot outlet
\* left out and the run with the cold outlet left out infer the outlet left out
\* and end with the governing duty of the run that is given both.
C7_InferenceSymmetry ==
  (/\ pc = "done" /\ ValidationPassed
   /\ T_hot_out_known /\ T_cold_out_known
   /\ Positive(m_dot_hot) /\ Positive(Cp_hot) /\ Positive(m_dot_cold) /\ Positive(Cp_cold)
   /\ Q_hot = Q_cold)
  => LET fromCold == StreamDuty(m_dot_cold, Cp_cold, RSub(T_cold_out, T_cold_in))
         hotOut == InferHotOut(T_hot_in, fromCold, m_dot_hot, Cp_hot)
         fromHot == StreamDuty(m_dot_hot, Cp_hot, RSub(T_hot_in, T_hot_out))
         coldOut == InferColdOut(T_cold_in, fromHot, m_dot_cold, Cp_cold)
     IN  /\ hotOut = T_hot_out
         /\ ~HotOutletInvalid(hotOut, T_hot_in)
         /\ GoverningDuty(StreamDuty(m_dot_hot, Cp_hot, RSub(T_hot_in, hotOut)), fromCold) = Q
         /\ coldOut = T_cold_out
         /\ ~ColdOutletInvalid(coldOut, T_cold_in)
         /\ GoverningDuty(fromHot, StreamDuty(m_dot_cold, Cp_cold, RSub(coldOut, T_cold_in))) = Q
C7_Witness ==
  /\ pc = "done" /\ ValidationPassed /\ T_hot_out_known /\ T_cold_out_known
  /\ Positive(m_dot_hot) /\ Positive(Cp_hot) /\ Positive(m_dot_cold) /\ Positive(Cp_cold)
  /\ Q_hot = Q_cold /\ Positive(Q)

\* C8: after validation passed, if the two driving differences are equal and
\* > 0, LMTD is exactly that difference, no LMTD message is shown, and the area
\* is Q / (U * difference).
C8_EqualDifferences ==
  (LMTDSet /\ DrivingT1 = DrivingT2 /\ Positive(DrivingT1))
  => /\ LMTD = Exact(DrivingT1)
     /\ messages = {}
     /\ (AreaSet => A = Exact(RDiv(Q, RMul(U, DrivingT1))))
C8_Witness ==
  /\ pc = "done" /\ AreaSet /\ DrivingT1 = DrivingT2 /\ Positive(DrivingT1)
  /\ LMTD = Exact(DrivingT1) /\ Positive(A.lo)

C10_ProfileEndsMatchDifferences ==
  profile # NoProfile
  => /\ RSub(profile.T_hot[1], profile.T_cold[1]) = DrivingT1
     /\ RSub(profile.T_hot[NumSamples], profile.T_cold[NumSamples]) = DrivingT2

====
